---- MODULE Spec2Model ----
(***************************************************************************)
(* A model of tools/bodyteleop/webrtc/stream.py: the stream builder, the   *)
(* offer (initiator) and answer (responder) streams, their start()         *)
(* coroutines cut at every await, and the routing of incoming tracks.      *)
(*                                                                         *)
(* One builder and the first stream built from it are modelled.  Python    *)
(* passes the builder's set and lists to the stream by reference, so the   *)
(* stream's expected_incoming_camera_types, outgoing_video_tracks and      *)
(* outgoing_audio_tracks are the builder's own objects; consume_audio is a *)
(* bool and is copied.                                                     *)
(***************************************************************************)
EXTENDS Naturals, Sequences, FiniteSets, TLC

VARIABLES
  builder,                  \* WebRTCStreamBuilder's fields
  role,                     \* "none" | "offer" | "answer": which stream was built
  extected_incoming_audio,  \* the stream's copy of consume_audio (the name __init__ sets)
  streamOffer,              \* WebRTCAnswerStream.offer
  incoming_camera_tracks,   \* dict camera_type -> track
  incoming_audio_tracks,    \* list of tracks
  calls,                    \* the calls made on the peer connection and the provider, in order
  streaming_offer,          \* the StreamingOffer last passed to the provider
  localDescription,         \* peer_connection.localDescription
  remoteDescription,        \* peer_connection.remoteDescription
  tasks,                    \* the start() invocations: where each is suspended, its locals
  first_video,              \* history: per label, the first video track delivered with it
  first_audio,              \* history: the first audio track delivered
  ignored_video,            \* history: the video tracks delivered whose id has under two parts
  subscriptions             \* the relay tracks media_relay.subscribe has returned, in order

vars == <<builder, role, extected_incoming_audio, streamOffer, incoming_camera_tracks,
          incoming_audio_tracks, calls, streaming_offer, localDescription,
          remoteDescription, tasks, first_video, first_audio, ignored_video,
                 subscriptions>>

streamVars == <<role, extected_incoming_audio, streamOffer, incoming_camera_tracks,
                incoming_audio_tracks, calls, streaming_offer, localDescription,
                remoteDescription>>

----------------------------------------------------------------------------
(* Bounds of the model *)

\* start() invocations on the stream
MaxStarts == 2
\* producer tracks the builder accepts per list
MaxOut == 1
\* relay tracks handed out by the getters
MaxSubs == 2

----------------------------------------------------------------------------
(* Values *)

\* the list of the assert in add_video_consumer
CameraTypes == {"driver", "wideRoad", "road"}

\* arguments tried for add_video_consumer
ConsumerInputs == {"road", "driver", "bogus"}

\* arguments tried for get_incoming_video_track
QueryInputs == {"road", "wideRoad"}

NoTrack == [kind |-> "none", id |-> <<>>]

\* arguments tried for add_video_producer / add_audio_producer
ProducerInputs == {[kind |-> "video", id |-> <<"cam">>], [kind |-> "audio", id |-> <<"mic">>]}

\* A track id is a string, modelled as a sequence of tokens: ":" or a run of
\* other characters.
VideoIds == {<<"road", ":", "abc">>, <<"road", ":", "def">>, <<"wideRoad", ":", "xyz">>,
             <<"onlylabel">>, <<"road">>}

IncomingTracks == {[kind |-> "video", id |-> i] : i \in VideoIds}
                    \cup {[kind |-> "audio", id |-> <<"audio0">>]}

NoDescription == [type |-> "none", sdp |-> 0]

\* what the session provider may return
RemoteAnswers == {[type |-> "answer", sdp |-> 101], [type |-> "answer", sdp |-> 102]}

\* the StreamingOffer objects tried for builder.answer
RemoteOffers == {[sdp |-> 201, type |-> "offer", video |-> <<"driver">>, audio |-> TRUE],
                 [sdp |-> 202, type |-> "offer", video |-> <<>>, audio |-> FALSE]}

NoOffer == [sdp |-> 0, type |-> "none", video |-> <<>>, audio |-> FALSE]

\* dict()
NoTracks == [c \in {} |-> NoTrack]

NoHandle == [source |-> NoTrack, buffered |-> FALSE]

Ret(result, value) == [result |-> result, value |-> value]

IdleTask == [pc |-> "idle", desc |-> NoDescription, result |-> NoDescription]

----------------------------------------------------------------------------
(* Helpers *)

\* str.split(":") on a token sequence: the text between the colons, "" where
\* there is none.
RECURSIVE SplitFrom(_, _, _)
SplitFrom(s, cur, acc) ==
  IF s = <<>> THEN Append(acc, cur)
  ELSE IF Head(s) = ":" THEN SplitFrom(Tail(s), "", Append(acc, cur))
  ELSE SplitFrom(Tail(s), Head(s), acc)

Split(s) == SplitFrom(s, "", <<>>)

\* list(a_set): the elements once each, in an order Python does not promise
ListsOf(S) == {f \in [1..Cardinality(S) -> S] : \A i, j \in DOMAIN f : i # j => f[i] # f[j]}

\* one entry of the log of calls made on the peer connection and the provider
Call(op, kind, track) == [op |-> op, kind |-> kind, track |-> track]

AddTransceiver(kind) == Call("addTransceiver", kind, NoTrack)
AddTrack(track) == Call("addTrack", track.kind, track)
Op(op) == Call(op, "", NoTrack)

\* the attributes WebRTCBaseStream.__init__ gives a stream
StreamAttrs == {"peer_connection", "media_relay", "expected_incoming_camera_types",
                "extected_incoming_audio", "incoming_camera_tracks",
                "incoming_audio_tracks", "outgoing_video_tracks", "outgoing_audio_tracks"}

\* The stream's references to the builder's set and lists.
expected_incoming_camera_types == builder.consumed_camera_tracks
outgoing_video_tracks == builder.video_producing_tracks
outgoing_audio_tracks == builder.audio_producing_tracks

\* Mutant of ConsumerCalls: the placeholders are those the received offer
\* declares.
ConsumerCallsFromOffer ==
  [i \in 1..Len(streamOffer.video) |-> AddTransceiver("video")]
    \o (IF streamOffer.audio THEN <<AddTransceiver("audio")>> ELSE <<>>)

\* the calls _add_consumer_tracks makes: a recvonly transceiver per expected
\* camera type, and one for audio when audio is expected
ConsumerCalls ==
  [i \in 1..Cardinality(expected_incoming_camera_types) |-> AddTransceiver("video")]
    \o (IF extected_incoming_audio THEN <<AddTransceiver("audio")>> ELSE <<>>)

\* the calls _add_producer_tracks makes
ProducerCalls ==
  [i \in 1..Len(outgoing_video_tracks) |-> AddTrack(outgoing_video_tracks[i])]
    \o [i \in 1..Len(outgoing_audio_tracks) |-> AddTrack(outgoing_audio_tracks[i])]

\* what the log says is on the connection
Placeholders(log) == SelectSeq(log, LAMBDA c : c.op = "addTransceiver")
Attached(log) == SelectSeq(log, LAMBDA c : c.op = "addTrack")

\* createOffer / createAnswer: a description of the media on the connection
\* when it is created
CreateDescription(type, log) ==
  [type |-> type, sdp |-> Len(Placeholders(log)) + Len(Attached(log))]

\* RTCSessionDescription read back from the connection: sdp and type only
DescriptionOf(d) == [type |-> d.type, sdp |-> d.sdp]

----------------------------------------------------------------------------
(* State after WebRTCStreamBuilder() *)

Init ==
  /\ builder = [consumed_camera_tracks |-> {}, consume_audio |-> FALSE,
                video_producing_tracks |-> <<>>, audio_producing_tracks |-> <<>>]
  /\ role = "none"
  /\ extected_incoming_audio = FALSE
  /\ streamOffer = NoOffer
  /\ incoming_camera_tracks = NoTracks
  /\ incoming_audio_tracks = <<>>
  /\ calls = <<>>
  /\ streaming_offer = NoOffer
  /\ localDescription = NoDescription
  /\ remoteDescription = NoDescription
  /\ tasks = [i \in 1..MaxStarts |-> IdleTask]
  /\ first_video = NoTracks
  /\ first_audio = NoTrack
  /\ ignored_video = {}
  /\ subscriptions = <<>>

----------------------------------------------------------------------------
(* WebRTCStreamBuilder *)

\* Mutant of AddVideoConsumerResult: a camera type already consumed is
\* refused.
AddVideoConsumerResultOnce(camera_type) ==
  IF camera_type \in CameraTypes /\ camera_type \notin builder.consumed_camera_tracks
    THEN "ok" ELSE "AssertionError"

\* Mutant of AddAudioConsumerResult: no check of consume_audio.
AddAudioConsumerResultUnchecked == "ok"

\* how each builder call ends: "ok", or the exception it raises
AddVideoConsumerResult(camera_type) ==
  IF camera_type \in CameraTypes THEN "ok" ELSE "AssertionError"

AddAudioConsumerResult == IF builder.consume_audio THEN "Exception" ELSE "ok"

AddVideoProducerResult(track) == IF track.kind = "video" THEN "ok" ELSE "AssertionError"

AddAudioProducerResult(track) == IF track.kind = "audio" THEN "ok" ELSE "AssertionError"

\* the builder's fields after each call
AfterAddVideoConsumer(camera_type) ==
  IF AddVideoConsumerResult(camera_type) = "ok"
    THEN [builder EXCEPT !.consumed_camera_tracks = @ \cup {camera_type}]
    ELSE builder

AfterAddAudioConsumer ==
  IF AddAudioConsumerResult = "ok" THEN [builder EXCEPT !.consume_audio = TRUE]
  ELSE builder

\* Mutant of AfterAddVideoProducer: the track is appended whatever the
\* assert says.
AfterAddVideoProducerAnyKind(track) ==
  [builder EXCEPT !.video_producing_tracks = Append(@, track)]

AfterAddVideoProducer(track) ==
  IF AddVideoProducerResult(track) = "ok"
    THEN [builder EXCEPT !.video_producing_tracks = Append(@, track)]
    ELSE builder

AfterAddAudioProducer(track) ==
  IF AddAudioProducerResult(track) = "ok"
    THEN [builder EXCEPT !.audio_producing_tracks = Append(@, track)]
    ELSE builder

add_video_consumer(camera_type) ==
  /\ builder' = AfterAddVideoConsumer(camera_type)
  /\ UNCHANGED <<streamVars, tasks, first_video, first_audio, ignored_video,
                 subscriptions>>

add_audio_consumer ==
  /\ builder' = AfterAddAudioConsumer
  /\ UNCHANGED <<streamVars, tasks, first_video, first_audio, ignored_video,
                 subscriptions>>

add_video_producer(track) ==
  /\ Len(builder.video_producing_tracks) < MaxOut
  /\ builder' = AfterAddVideoProducer(track)
  /\ UNCHANGED <<streamVars, tasks, first_video, first_audio, ignored_video,
                 subscriptions>>

add_audio_producer(track) ==
  /\ Len(builder.audio_producing_tracks) < MaxOut
  /\ builder' = AfterAddAudioProducer(track)
  /\ UNCHANGED <<streamVars, tasks, first_video, first_audio, ignored_video,
                 subscriptions>>

\* builder.offer(provider): WebRTCBaseStream.__init__, then _add_producer_tracks
offer ==
  /\ role = "none"
  /\ role' = "offer"
  /\ extected_incoming_audio' = builder.consume_audio
  /\ incoming_camera_tracks' = NoTracks
  /\ incoming_audio_tracks' = <<>>
  /\ calls' = ProducerCalls
  /\ UNCHANGED <<builder, streamOffer, streaming_offer, localDescription, remoteDescription,
                 tasks, first_video, first_audio, ignored_video,
                 subscriptions>>

\* builder.answer(offer): WebRTCBaseStream.__init__, then self.offer = offer
answer(o) ==
  /\ role = "none"
  /\ role' = "answer"
  /\ extected_incoming_audio' = builder.consume_audio
  /\ incoming_camera_tracks' = NoTracks
  /\ incoming_audio_tracks' = <<>>
  /\ streamOffer' = o
  /\ UNCHANGED <<builder, calls, streaming_offer, localDescription, remoteDescription,
                 tasks, first_video, first_audio, ignored_video,
                 subscriptions>>

----------------------------------------------------------------------------
(* WebRTCBaseStream: events of the peer connection, and track access *)

\* the dict after d[key] = track
DictSet(d, key, track) == [k \in DOMAIN d \cup {key} |-> IF k = key THEN track ELSE d[k]]

\* Mutant of OnVideoTrack: the camera type is taken from the second part of
\* the id, the camera id.
OnVideoTrackByInstance(track) ==
  LET parts == Split(track.id) IN
  IF Len(parts) < 2 THEN incoming_camera_tracks
  ELSE LET camera_type == parts[2] IN
       IF camera_type \in expected_incoming_camera_types
         THEN DictSet(incoming_camera_tracks, camera_type, track)
         ELSE incoming_camera_tracks

\* Mutant of OnVideoTrack: the camera type is not checked against the
\* expected ones.
OnVideoTrackUnchecked(track) ==
  LET parts == Split(track.id) IN
  IF Len(parts) < 2 THEN incoming_camera_tracks
  ELSE DictSet(incoming_camera_tracks, parts[1], track)

\* Mutant of OnVideoTrack: without the check of the number of parts.
OnVideoTrackAnyLength(track) ==
  LET parts == Split(track.id)
      camera_type == parts[1] IN
  IF camera_type \in expected_incoming_camera_types
    THEN DictSet(incoming_camera_tracks, camera_type, track)
    ELSE incoming_camera_tracks

\* the body of _on_incoming_track for a video track
OnVideoTrack(track) ==
  LET parts == Split(track.id) IN
  IF Len(parts) < 2 THEN incoming_camera_tracks
  ELSE LET camera_type == parts[1] IN
       IF camera_type \in expected_incoming_camera_types
         THEN DictSet(incoming_camera_tracks, camera_type, track)
         ELSE incoming_camera_tracks

\* the history of first arrivals after `track` is delivered: a video track
\* identified "label:instance" counts for its label
FirstVideo(track) ==
  IF track.kind = "video" /\ Len(Split(track.id)) >= 2 /\ Split(track.id)[1] \notin DOMAIN first_video
    THEN DictSet(first_video, Split(track.id)[1], track)
    ELSE first_video

\* the history of ignored video tracks after `track` is delivered
IgnoredVideo(track) ==
  IF track.kind = "video" /\ Len(Split(track.id)) < 2
    THEN ignored_video \cup {track} ELSE ignored_video

\* the body of _on_incoming_track for an audio track; it reads
\* self.expected_incoming_audio
OnAudioTrack(track) ==
  IF extected_incoming_audio THEN Append(incoming_audio_tracks, track)
  ELSE incoming_audio_tracks

\* how _on_incoming_track(track) ends: "ok", or the exception it raises
OnIncomingTrackResult(track) ==
  IF track.kind = "audio" /\ "expected_incoming_audio" \notin StreamAttrs
    THEN "AttributeError" ELSE "ok"

\* Mutant of _on_incoming_track: a track is routed only once start() has
\* returned; one arriving earlier is dropped.
_on_incoming_track_after_start(track) ==
  /\ role # "none"
  /\ first_video' = FirstVideo(track)
  /\ first_audio' = IF track.kind = "audio" /\ first_audio = NoTrack THEN track ELSE first_audio
  /\ incoming_camera_tracks' =
       IF track.kind = "video" /\ tasks[1].pc = "done"
         THEN OnVideoTrack(track) ELSE incoming_camera_tracks
  /\ incoming_audio_tracks' =
       IF track.kind = "audio" /\ OnIncomingTrackResult(track) = "ok" /\ tasks[1].pc = "done"
         THEN OnAudioTrack(track) ELSE incoming_audio_tracks
  /\ ignored_video' = IgnoredVideo(track)
  /\ UNCHANGED <<builder, role, extected_incoming_audio, streamOffer, calls, streaming_offer,
                 localDescription, remoteDescription, tasks, subscriptions>>

_on_incoming_track(track) ==
  /\ role # "none"
  /\ first_video' = FirstVideo(track)
  /\ first_audio' = IF track.kind = "audio" /\ first_audio = NoTrack THEN track ELSE first_audio
  /\ incoming_camera_tracks' =
       IF track.kind = "video" THEN OnVideoTrack(track) ELSE incoming_camera_tracks
  /\ incoming_audio_tracks' =
       IF track.kind = "audio" /\ OnIncomingTrackResult(track) = "ok"
         THEN OnAudioTrack(track) ELSE incoming_audio_tracks
  /\ ignored_video' = IgnoredVideo(track)
  /\ UNCHANGED <<builder, role, extected_incoming_audio, streamOffer, calls, streaming_offer,
                 localDescription, remoteDescription, tasks, subscriptions>>

\* print only
_on_connectionstatechange ==
  /\ role # "none"
  /\ UNCHANGED vars

\* print only
_on_incoming_datachannel ==
  /\ role # "none"
  /\ UNCHANGED vars

\* what get_incoming_video_track(camera_type, buffered) gives in this state
VideoTrackResult(camera_type, buffered) ==
  IF camera_type \in DOMAIN incoming_camera_tracks
    THEN Ret("ok", [source |-> incoming_camera_tracks[camera_type], buffered |-> buffered])
    ELSE Ret("AssertionError", NoHandle)

\* what get_incoming_audio_track(buffered) gives in this state
AudioTrackResult(buffered) ==
  IF Len(incoming_audio_tracks) > 0
    THEN Ret("ok", [source |-> incoming_audio_tracks[1], buffered |-> buffered])
    ELSE Ret("AssertionError", NoHandle)

\* media_relay.subscribe(track, buffered=buffered): a new relay track each
\* call, which the relay keeps
Subscribe(ret) ==
  IF ret.result = "ok" THEN Append(subscriptions, ret.value) ELSE subscriptions

\* Mutant of get_incoming_video_track: the track is taken out of the
\* registry when it is subscribed.
get_incoming_video_track_taking(camera_type, buffered) ==
  /\ role # "none"
  /\ Len(subscriptions) < MaxSubs
  /\ subscriptions' = Subscribe(VideoTrackResult(camera_type, buffered))
  /\ incoming_camera_tracks' =
       [c \in DOMAIN incoming_camera_tracks \ {camera_type} |-> incoming_camera_tracks[c]]
  /\ UNCHANGED <<builder, role, extected_incoming_audio, streamOffer, incoming_audio_tracks,
                 calls, streaming_offer, localDescription, remoteDescription, tasks,
                 first_video, first_audio, ignored_video>>

\* the registry is read, never written; the relay's track is the result
get_incoming_video_track(camera_type, buffered) ==
  /\ role # "none"
  /\ Len(subscriptions) < MaxSubs
  /\ subscriptions' = Subscribe(VideoTrackResult(camera_type, buffered))
  /\ UNCHANGED <<builder, streamVars, tasks, first_video, first_audio, ignored_video>>

get_incoming_audio_track(buffered) ==
  /\ role # "none"
  /\ Len(subscriptions) < MaxSubs
  /\ subscriptions' = Subscribe(AudioTrackResult(buffered))
  /\ UNCHANGED <<builder, streamVars, tasks, first_video, first_audio, ignored_video>>

----------------------------------------------------------------------------
(* start(): one action per stretch of code between two awaits.  An action    *)
(* is the completion of the call the task was suspended on, followed by the *)
(* code up to the next await.                                               *)

\* The invocations are numbered in the order they are made; the caller awaits
\* one start() before it makes the next.
CanInvoke(i) ==
  /\ tasks[i].pc = "idle"
  /\ \A j \in 1..MaxStarts : j < i => tasks[j].pc \in {"done", "raised", "AssertionError"}

Suspend(i, pc, desc) == tasks' = [tasks EXCEPT ![i] = [pc |-> pc, desc |-> desc, result |-> NoDescription]]
Finish(i, pc, result) == tasks' = [tasks EXCEPT ![i] = [pc |-> pc, desc |-> NoDescription, result |-> result]]

\* Mutant of OfferStart: start() attaches the outgoing tracks after it has
\* registered the placeholders.
OfferStartAttaching(i) ==
  /\ role = "offer"
  /\ CanInvoke(i)
  /\ calls' = calls \o ConsumerCalls \o ProducerCalls
  /\ Suspend(i, "createOffer", NoDescription)
  /\ UNCHANGED <<builder, role, extected_incoming_audio, streamOffer, incoming_camera_tracks,
                 incoming_audio_tracks, streaming_offer, localDescription, remoteDescription,
                 first_video, first_audio, ignored_video,
                 subscriptions>>

\* WebRTCOfferStream.start up to `await createOffer()`
OfferStart(i) ==
  /\ role = "offer"
  /\ CanInvoke(i)
  /\ calls' = calls \o ConsumerCalls
  /\ Suspend(i, "createOffer", NoDescription)
  /\ UNCHANGED <<builder, role, extected_incoming_audio, streamOffer, incoming_camera_tracks,
                 incoming_audio_tracks, streaming_offer, localDescription, remoteDescription, first_video, first_audio, ignored_video,
                 subscriptions>>

\* createOffer() returns; up to `await setLocalDescription(offer)`
OfferCreated(i) ==
  /\ role = "offer"
  /\ tasks[i].pc = "createOffer"
  /\ calls' = Append(calls, Op("createOffer"))
  /\ Suspend(i, "setLocalDescription", CreateDescription("offer", calls))
  /\ UNCHANGED <<builder, role, extected_incoming_audio, streamOffer, incoming_camera_tracks,
                 incoming_audio_tracks, streaming_offer, localDescription, remoteDescription, first_video, first_audio, ignored_video,
                 subscriptions>>

\* Mutant of StreamingOffers: video lists the camera types that have a track,
\* not the expected ones.
StreamingOffersOfArrived(actual_offer) ==
  {[sdp |-> actual_offer.sdp, type |-> actual_offer.type, video |-> v,
    audio |-> extected_incoming_audio] : v \in ListsOf(DOMAIN incoming_camera_tracks)}

\* the StreamingOffer start() builds from the local description
StreamingOffers(actual_offer) ==
  {[sdp |-> actual_offer.sdp, type |-> actual_offer.type, video |-> v,
    audio |-> extected_incoming_audio] : v \in ListsOf(expected_incoming_camera_types)}

\* setLocalDescription(offer) returns; up to `await self.session_provider(streaming_offer)`
OfferLocalSet(i) ==
  /\ role = "offer"
  /\ tasks[i].pc = "setLocalDescription"
  /\ localDescription' = DescriptionOf(tasks[i].desc)
  /\ streaming_offer' \in StreamingOffers(localDescription')
  /\ calls' = calls \o <<Op("setLocalDescription"), Op("session_provider")>>
  /\ Suspend(i, "session_provider", NoDescription)
  /\ UNCHANGED <<builder, role, extected_incoming_audio, streamOffer, incoming_camera_tracks,
                 incoming_audio_tracks, remoteDescription, first_video, first_audio, ignored_video,
                 subscriptions>>

\* the provider returns remote_answer; up to `await setRemoteDescription(remote_answer)`
OfferAnswered(i, remote_answer) ==
  /\ role = "offer"
  /\ tasks[i].pc = "session_provider"
  /\ Suspend(i, "setRemoteDescription", remote_answer)
  /\ UNCHANGED <<builder, streamVars, first_video, first_audio, ignored_video,
                 subscriptions>>

\* the provider raises: the exception leaves start()
OfferSignalingFailed(i) ==
  /\ role = "offer"
  /\ tasks[i].pc = "session_provider"
  /\ Finish(i, "raised", NoDescription)
  /\ UNCHANGED <<builder, streamVars, first_video, first_audio, ignored_video,
                 subscriptions>>

\* setRemoteDescription(remote_answer) returns; start() returns remoteDescription
OfferRemoteSet(i) ==
  /\ role = "offer"
  /\ tasks[i].pc = "setRemoteDescription"
  /\ remoteDescription' = DescriptionOf(tasks[i].desc)
  /\ calls' = Append(calls, Op("setRemoteDescription"))
  /\ Finish(i, "done", remoteDescription')
  /\ UNCHANGED <<builder, role, extected_incoming_audio, streamOffer, incoming_camera_tracks,
                 incoming_audio_tracks, streaming_offer, localDescription, first_video, first_audio, ignored_video,
                 subscriptions>>

\* Mutant of AnswerStart: no assert on the remote description.
AnswerStartUnguarded(i) ==
  /\ role = "answer"
  /\ CanInvoke(i)
  /\ Suspend(i, "setRemoteDescription", DescriptionOf(streamOffer))
  /\ UNCHANGED <<builder, streamVars, first_video, first_audio, ignored_video,
                 subscriptions>>

\* WebRTCAnswerStream.start: the assert, then up to `await setRemoteDescription(self.offer)`
AnswerStart(i) ==
  /\ role = "answer"
  /\ CanInvoke(i)
  /\ IF remoteDescription = NoDescription
       THEN Suspend(i, "setRemoteDescription", DescriptionOf(streamOffer))
       ELSE Finish(i, "AssertionError", NoDescription)
  /\ UNCHANGED <<builder, streamVars, first_video, first_audio, ignored_video,
                 subscriptions>>

\* setRemoteDescription(self.offer) returns; _add_consumer_tracks,
\* _add_producer_tracks, up to `await createAnswer()`
AnswerRemoteSet(i) ==
  /\ role = "answer"
  /\ tasks[i].pc = "setRemoteDescription"
  /\ remoteDescription' = DescriptionOf(tasks[i].desc)
  /\ calls' = Append(calls, Op("setRemoteDescription"))
                \o ConsumerCalls \o ProducerCalls
  /\ Suspend(i, "createAnswer", NoDescription)
  /\ UNCHANGED <<builder, role, extected_incoming_audio, streamOffer, incoming_camera_tracks,
                 incoming_audio_tracks, streaming_offer, localDescription, first_video, first_audio, ignored_video,
                 subscriptions>>

\* createAnswer() returns; up to `await setLocalDescription(answer)`
AnswerCreated(i) ==
  /\ role = "answer"
  /\ tasks[i].pc = "createAnswer"
  /\ calls' = Append(calls, Op("createAnswer"))
  /\ Suspend(i, "setLocalDescription", CreateDescription("answer", calls))
  /\ UNCHANGED <<builder, role, extected_incoming_audio, streamOffer, incoming_camera_tracks,
                 incoming_audio_tracks, streaming_offer, localDescription, remoteDescription, first_video, first_audio, ignored_video,
                 subscriptions>>

\* setLocalDescription(answer) returns; start() returns localDescription
AnswerLocalSet(i) ==
  /\ role = "answer"
  /\ tasks[i].pc = "setLocalDescription"
  /\ localDescription' = DescriptionOf(tasks[i].desc)
  /\ calls' = Append(calls, Op("setLocalDescription"))
  /\ Finish(i, "done", localDescription')
  /\ UNCHANGED <<builder, role, extected_incoming_audio, streamOffer, incoming_camera_tracks,
                 incoming_audio_tracks, streaming_offer, remoteDescription, first_video, first_audio, ignored_video,
                 subscriptions>>

----------------------------------------------------------------------------

\* the steps of the i-th start() invocation
StartStep(i) ==
  \/ OfferStart(i)
  \/ OfferCreated(i)
  \/ OfferLocalSet(i)
  \/ \E a \in RemoteAnswers : OfferAnswered(i, a)
  \/ OfferSignalingFailed(i)
  \/ OfferRemoteSet(i)
  \/ AnswerStart(i)
  \/ AnswerRemoteSet(i)
  \/ AnswerCreated(i)
  \/ AnswerLocalSet(i)

(* Configuration and negotiation: the builder, the two constructors and    *)
(* start().  No peer-connection event is delivered.                        *)
Next ==
  \/ \E c \in ConsumerInputs : add_video_consumer(c)
  \/ add_audio_consumer
  \/ \E t \in ProducerInputs : add_video_producer(t)
  \/ \E t \in ProducerInputs : add_audio_producer(t)
  \/ offer
  \/ \E o \in RemoteOffers : answer(o)
  \/ \E i \in 1..MaxStarts : StartStep(i)

Spec == Init /\ [][Next]_vars

(* Track routing: a stream whose builder declares consumers only, one      *)
(* start() of it and the events of its peer connection.                    *)
NextRouting ==
  \/ \E c \in ConsumerInputs : add_video_consumer(c)
  \/ add_audio_consumer
  \/ offer
  \/ \E o \in RemoteOffers : answer(o)
  \/ \E t \in IncomingTracks : _on_incoming_track(t)
  \/ _on_connectionstatechange
  \/ _on_incoming_datachannel
  \/ StartStep(1)

SpecRouting == Init /\ [][NextRouting]_vars

(* Track access: a stream whose builder declares consumers only, the       *)
(* events of its peer connection and the two getters.                      *)
NextRelay ==
  \/ \E c \in ConsumerInputs : add_video_consumer(c)
  \/ add_audio_consumer
  \/ offer
  \/ \E o \in RemoteOffers : answer(o)
  \/ \E t \in IncomingTracks : _on_incoming_track(t)
  \/ _on_connectionstatechange
  \/ _on_incoming_datachannel
  \/ \E c \in QueryInputs, b \in BOOLEAN : get_incoming_video_track(c, b)
  \/ \E b \in BOOLEAN : get_incoming_audio_track(b)

SpecRelay == Init /\ [][NextRelay]_vars

----------------------------------------------------------------------------
(* Vocabulary of the properties *)

Finished(i) == tasks[i].pc \in {"done", "raised", "AssertionError"}
Returned(i) == tasks[i].pc = "done"

VideoPlaceholders(log) == SelectSeq(log, LAMBDA c : c.op = "addTransceiver" /\ c.kind = "video")
AudioPlaceholders(log) == SelectSeq(log, LAMBDA c : c.op = "addTransceiver" /\ c.kind = "audio")

\* a video track identified "label:instance"
HasLabel(track, label) ==
  track.kind = "video" /\ Len(Split(track.id)) >= 2 /\ Split(track.id)[1] = label

TracksWithLabel == [c \in CameraTypes |-> {t \in IncomingTracks : HasLabel(t, c)}]

----------------------------------------------------------------------------
(* C1 *)

\* C1: an invocation of start() after the first one (here: after the first
\* one has returned) fails, and the failed call leaves the stream as it was:
\* no placeholder is registered, no track is attached, the descriptions are
\* not changed.
C1_SecondStartFails ==
  [][\A i \in 2..MaxStarts :
       (Returned(1) /\ (OfferStart(i) \/ AnswerStart(i)))
         => (tasks'[i].pc = "AssertionError" /\ UNCHANGED streamVars)]_vars

----------------------------------------------------------------------------
(* C2 *)

\* C2: the track stored under a label is the first that arrived with it; a
\* later arrival with the same label never replaces it.
C2_FirstTrackKept ==
  [][\A c \in DOMAIN incoming_camera_tracks :
       incoming_camera_tracks'[c] = incoming_camera_tracks[c]]_vars

----------------------------------------------------------------------------
(* C3 *)

----------------------------------------------------------------------------
(* C4 *)

\* C4: on a stream that expects audio, get_incoming_audio_track fails while
\* no audio track has arrived and succeeds once one has; the arrival of an
\* audio track is handled without raising.
C4_AudioTrackReady ==
  (role # "none" /\ extected_incoming_audio)
    => \A b \in BOOLEAN :
         IF first_audio = NoTrack
           THEN AudioTrackResult(b).result = "AssertionError"
           ELSE /\ OnIncomingTrackResult(first_audio) = "ok"
                /\ AudioTrackResult(b).result = "ok"

----------------------------------------------------------------------------
(* C5 *)

\* C5: on an offer stream that expects label L and whose start() has
\* returned, get_incoming_video_track(L, buffered) fails while no track
\* identified "L:<instance>" has arrived, and once such a track arrives it
\* succeeds with a handle whose source is that track.
C5_VideoTrackReady ==
  /\ [](\A c \in CameraTypes, b \in BOOLEAN :
          (role = "offer" /\ Returned(1) /\ c \in expected_incoming_camera_types
             /\ c \notin DOMAIN first_video)
            => VideoTrackResult(c, b).result = "AssertionError")
  /\ [][(role = "offer" /\ Returned(1)) =>
          \A c \in expected_incoming_camera_types : \A t \in TracksWithLabel[c] :
            _on_incoming_track(t)
              => \A b \in BOOLEAN :
                   VideoTrackResult(c, b)' = Ret("ok", [source |-> t, buffered |-> b])]_vars

\* "road:abc" has arrived on a negotiated offer stream that expects road and
\* driver, and get_incoming_video_track("road", False) gives a handle on it
C5_Witness ==
  /\ role = "offer"
  /\ Returned(1)
  /\ expected_incoming_camera_types = {"road", "driver"}
  /\ VideoTrackResult("road", FALSE) =
       Ret("ok", [source |-> [kind |-> "video", id |-> <<"road", ":", "abc">>],
                  buffered |-> FALSE])

----------------------------------------------------------------------------
(* C6 *)

\* C6: the keys of the registry are expected camera types, so
\* get_incoming_video_track fails for a camera type that is not expected,
\* whichever tracks have arrived.
C6_OnlyExpectedStored ==
  /\ DOMAIN incoming_camera_tracks \subseteq expected_incoming_camera_types
  /\ \A c \in CameraTypes \ expected_incoming_camera_types, b \in BOOLEAN :
       VideoTrackResult(c, b).result = "AssertionError"

\* "wideRoad:xyz" has arrived on a stream that expects road and driver, and
\* the registry has no entry for wideRoad
C6_Witness ==
  /\ role # "none"
  /\ expected_incoming_camera_types = {"road", "driver"}
  /\ "wideRoad" \in DOMAIN first_video
  /\ "wideRoad" \notin DOMAIN incoming_camera_tracks
  /\ VideoTrackResult("wideRoad", FALSE).result = "AssertionError"

----------------------------------------------------------------------------
(* C7 *)

\* C7: once a stream is built, no builder call changes the camera types it
\* expects, its audio expectation or its outgoing track lists.
C7_ConfigurationFrozen ==
  [][role # "none" =>
       /\ expected_incoming_camera_types' = expected_incoming_camera_types
       /\ extected_incoming_audio' = extected_incoming_audio
       /\ outgoing_video_tracks' = outgoing_video_tracks
       /\ outgoing_audio_tracks' = outgoing_audio_tracks]_vars

----------------------------------------------------------------------------
(* C8 *)

HasOp(log, op) == \E k \in DOMAIN log : log[k].op = op

\* the step appended a call of the provider to the log
ProviderCalled ==
  /\ Len(calls') > Len(calls)
  /\ calls'[Len(calls')].op = "session_provider"

\* C8: on an offer stream the provider is called only once the local
\* description is set, with an offer carrying the local sdp, the expected
\* camera types and the audio expectation; the remote description is set only
\* after the provider has returned, to the answer it returned, and start()
\* returns that answer.
C8_OfferSequence ==
  /\ [](role = "offer" =>
          /\ \A k \in DOMAIN calls :
               /\ calls[k].op = "session_provider"
                    => (k > 1 /\ calls[k - 1].op = "setLocalDescription")
               /\ calls[k].op = "setRemoteDescription"
                    => (k > 1 /\ calls[k - 1].op = "session_provider")
          /\ HasOp(calls, "session_provider") => localDescription # NoDescription
          /\ \A i \in 1..MaxStarts :
               tasks[i].pc = "setRemoteDescription" => tasks[i].desc \in RemoteAnswers)
  /\ [][role = "offer" =>
          /\ ProviderCalled =>
               /\ streaming_offer'.type = "offer"
               /\ streaming_offer'.type = localDescription'.type
               /\ streaming_offer'.sdp = localDescription'.sdp
               /\ Len(streaming_offer'.video) = Cardinality(expected_incoming_camera_types)
               /\ {streaming_offer'.video[k] : k \in DOMAIN streaming_offer'.video}
                    = expected_incoming_camera_types
               /\ streaming_offer'.audio = extected_incoming_audio
          /\ remoteDescription' # remoteDescription =>
               \E i \in 1..MaxStarts :
                 /\ tasks[i].pc = "setRemoteDescription"
                 /\ tasks'[i].pc = "done"
                 /\ remoteDescription' = tasks[i].desc
                 /\ tasks'[i].result = tasks[i].desc
          /\ \A i \in 1..MaxStarts :
               (tasks'[i].pc = "done" /\ tasks[i].pc # "done") =>
                 /\ tasks[i].pc = "setRemoteDescription"
                 /\ tasks'[i].result = tasks[i].desc
                 /\ remoteDescription' = tasks[i].desc]_vars

\* an offer stream expecting road, driver and audio has returned from start()
\* with the provider's second answer
C8_Witness ==
  /\ role = "offer"
  /\ Returned(1)
  /\ streaming_offer.video = <<"road", "driver">>
  /\ streaming_offer.audio
  /\ streaming_offer.sdp = 3
  /\ remoteDescription = [type |-> "answer", sdp |-> 102]
  /\ tasks[1].result = remoteDescription

----------------------------------------------------------------------------
(* C9 *)

\* C9 as claimed: on an offer stream (up to the end of its first start())
\* every placeholder is registered before any outgoing track is attached, and
\* both before the local offer is created.
C9_PlaceholdersBeforeTracks ==
  (role = "offer" /\ \A i \in 2..MaxStarts : tasks[i].pc = "idle")
    => \A j, k \in DOMAIN calls :
         /\ (calls[j].op = "addTransceiver" /\ calls[k].op = "addTrack") => j < k
         /\ (calls[j].op \in {"addTransceiver", "addTrack"} /\ calls[k].op = "createOffer")
              => j < k

\* C9 as amended: an offer stream attaches every outgoing track when it is
\* constructed, before any placeholder is registered; start() registers the
\* placeholders for every expected incoming kind before it creates its local
\* offer, so both happen before the first local offer is created.
C9_TracksAtConstruction ==
  /\ [](role = "offer" =>
          /\ \A j, k \in DOMAIN calls :
               (j < k /\ calls[k].op = "addTrack") => calls[j].op = "addTrack"
          /\ tasks[1].pc = "idle" => Placeholders(calls) = <<>>
          /\ tasks[1].pc \in {"idle", "createOffer"} => ~HasOp(calls, "createOffer"))
  /\ [][/\ (role = "none" /\ role' = "offer") =>
             calls' = [k \in 1..Len(outgoing_video_tracks) |-> AddTrack(outgoing_video_tracks[k])]
                        \o [k \in 1..Len(outgoing_audio_tracks) |->
                              AddTrack(outgoing_audio_tracks[k])]
        /\ role = "offer" =>
             \A i \in 1..MaxStarts :
               (tasks[i].pc = "idle" /\ tasks'[i].pc # "idle") =>
                 /\ tasks'[i].pc = "createOffer"
                 /\ calls' = calls
                      \o [k \in 1..Cardinality(expected_incoming_camera_types) |->
                            AddTransceiver("video")]
                      \o (IF extected_incoming_audio THEN <<AddTransceiver("audio")>>
                          ELSE <<>>)]_vars

\* an offer stream with an outgoing track and an expected camera type is
\* suspended with its local offer created: the track was attached first, the
\* placeholder second
C9_Witness ==
  /\ role = "offer"
  /\ tasks[1].pc = "setLocalDescription"
  /\ Len(calls) = 3
  /\ calls[1].op = "addTrack"
  /\ calls[2].op = "addTransceiver"
  /\ calls[3].op = "createOffer"

----------------------------------------------------------------------------
(* C10 *)

\* the place of a call in the answer sequence
Rank(op) ==
  CASE op = "setRemoteDescription" -> 1
    [] op = "addTransceiver" -> 2
    [] op = "addTrack" -> 3
    [] op = "createAnswer" -> 4
    [] op = "setLocalDescription" -> 5
    [] OTHER -> 0

\* C10: on an answer stream start() first sets the remote description from
\* the offer (it fails, changing nothing, when one is already set), then
\* registers the placeholders, attaches all outgoing tracks, creates the
\* answer and sets the local description, in that order, and returns the
\* local description; the provider is never called.
C10_AnswerSequence ==
  /\ [](role = "answer" =>
          /\ \A k \in DOMAIN calls : Rank(calls[k].op) > 0
          /\ \A j, k \in DOMAIN calls :
               j < k => /\ Rank(calls[j].op) <= Rank(calls[k].op)
                        /\ Rank(calls[j].op) = Rank(calls[k].op)
                             => calls[j].op \in {"addTransceiver", "addTrack"}
          /\ calls # <<>> => calls[1].op = "setRemoteDescription"
          /\ remoteDescription # NoDescription =>
               (remoteDescription = DescriptionOf(streamOffer) /\ calls # <<>>)
          /\ \A i \in 1..MaxStarts :
               Returned(i) => /\ tasks[i].result = localDescription
                              /\ localDescription.type = "answer"
                              /\ calls[Len(calls)].op = "setLocalDescription")
  /\ [][role = "answer" =>
          \A i \in 1..MaxStarts :
            /\ (remoteDescription # NoDescription /\ tasks[i].pc = "idle"
                  /\ tasks'[i].pc # "idle")
                 => (tasks'[i].pc = "AssertionError" /\ UNCHANGED streamVars)
            /\ (tasks[i].pc = "setRemoteDescription" /\ tasks'[i].pc # tasks[i].pc)
                 => Attached(calls') =
                      [k \in 1..Len(outgoing_video_tracks) |->
                         AddTrack(outgoing_video_tracks[k])]
                        \o [k \in 1..Len(outgoing_audio_tracks) |->
                              AddTrack(outgoing_audio_tracks[k])]]_vars

\* an answer stream with a placeholder and an outgoing track has returned
\* from its first start(), and its second start() has failed on the assert
C10_Witness ==
  /\ role = "answer"
  /\ Returned(1)
  /\ tasks[2].pc = "AssertionError"
  /\ Placeholders(calls) # <<>>
  /\ Attached(calls) # <<>>
  /\ tasks[1].result = localDescription

----------------------------------------------------------------------------
(* C11 *)

\* C11: once the session provider has failed during the first start() of an
\* offer stream, the failure has left start(), the local description is set,
\* the remote description is not set and no start() of the stream has
\* returned, in every later state.
C11_StaysLocalDescriptionSet ==
  (role = "offer" /\ tasks[1].pc = "raised") =>
    /\ tasks[1].result = NoDescription
    /\ localDescription # NoDescription
    /\ remoteDescription = NoDescription
    /\ \A i \in 1..MaxStarts : ~Returned(i)

----------------------------------------------------------------------------
(* C12 *)

\* the description steps in a log of calls
DescriptionSteps(log) ==
  LET steps == SelectSeq(log, LAMBDA c : c.op \notin {"addTransceiver", "addTrack"})
  IN [k \in 1..Len(steps) |-> steps[k].op]

\* C12: wherever start() stands (not invoked, suspended at any await, or
\* returned), the first video track delivered with an expected label is
\* stored in the registry under that label, and a delivery changes neither
\* the log of calls, nor the descriptions, nor the position of start(); a
\* start() that has returned has made the description steps of its role, in
\* order, whatever was delivered on the way.
C12_RoutedAtAnyPoint ==
  /\ [][\A c \in CameraTypes :
          (c \notin DOMAIN first_video /\ c \in DOMAIN first_video'
             /\ c \in expected_incoming_camera_types)
            => /\ c \in DOMAIN incoming_camera_tracks'
               /\ incoming_camera_tracks'[c] = first_video'[c]
               /\ UNCHANGED <<calls, streaming_offer, localDescription,
                              remoteDescription, tasks>>]_vars
  /\ [](Returned(1) =>
          DescriptionSteps(calls) =
            IF role = "offer"
              THEN <<"createOffer", "setLocalDescription", "session_provider",
                     "setRemoteDescription">>
              ELSE <<"setRemoteDescription", "createAnswer", "setLocalDescription">>)

\* start() is suspended on the session provider and a track delivered with
\* an expected label is in the registry already
C12_Witness ==
  /\ role = "offer"
  /\ tasks[1].pc = "session_provider"
  /\ "road" \in DOMAIN incoming_camera_tracks
  /\ incoming_camera_tracks["road"] = first_video["road"]

----------------------------------------------------------------------------
(* C13 *)

\* a video track whose id has fewer than two colon-separated parts
Malformed(track) == track.kind = "video" /\ Len(Split(track.id)) < 2

\* C13: in every state of a stream, delivering a video track whose id has
\* fewer than two colon-separated parts ends without an exception and gives
\* the registry it found, also when the id is an expected label; and the
\* step that delivers one leaves the registry and the audio list unchanged.
C13_MalformedIgnored ==
  /\ [](role # "none" =>
          \A t \in IncomingTracks :
            Malformed(t) => /\ OnVideoTrack(t) = incoming_camera_tracks
                            /\ OnIncomingTrackResult(t) = "ok")
  /\ [][ignored_video' # ignored_video
          => UNCHANGED <<incoming_camera_tracks, incoming_audio_tracks>>]_vars

\* "onlylabel" and "road" were delivered to a stream that expects "road",
\* and the registry has no entry
C13_Witness ==
  /\ "road" \in expected_incoming_camera_types
  /\ ignored_video = {t \in IncomingTracks : Malformed(t)}
  /\ [kind |-> "video", id |-> <<"road">>] \in ignored_video
  /\ incoming_camera_tracks = NoTracks

----------------------------------------------------------------------------
(* C14 *)

\* C14: in every state, add_video_consumer with a camera type that is
\* already consumed ends without an exception and leaves the builder's
\* fields as they are; any add_video_consumer call adds at most its own
\* argument, so the consumed set grows by at most one per call.
C14_AddVideoConsumerIdempotent ==
  /\ [](\A c \in ConsumerInputs :
          /\ c \in builder.consumed_camera_tracks
               => /\ AddVideoConsumerResult(c) = "ok"
                  /\ AfterAddVideoConsumer(c) = builder
          /\ AfterAddVideoConsumer(c).consumed_camera_tracks
               \subseteq builder.consumed_camera_tracks \cup {c}
          /\ builder.consumed_camera_tracks
               \subseteq AfterAddVideoConsumer(c).consumed_camera_tracks)
  /\ [][Cardinality(builder'.consumed_camera_tracks)
          <= Cardinality(builder.consumed_camera_tracks) + 1]_vars

\* two camera types are consumed, next to an audio consumer and a producer,
\* and adding either again gives the same builder
C14_Witness ==
  /\ builder.consumed_camera_tracks = {"road", "driver"}
  /\ builder.consume_audio
  /\ builder.video_producing_tracks # <<>>
  /\ AfterAddVideoConsumer("road") = builder

----------------------------------------------------------------------------
(* C15 *)

\* C15: add_audio_consumer succeeds while consume_audio is False; once it
\* is True it stays True, and every add_audio_consumer call raises
\* Exception and leaves the builder's fields as they are.
C15_OneAudioConsumer ==
  /\ [](IF builder.consume_audio
          THEN /\ AddAudioConsumerResult = "Exception"
               /\ AfterAddAudioConsumer = builder
          ELSE /\ AddAudioConsumerResult = "ok"
               /\ AfterAddAudioConsumer = [builder EXCEPT !.consume_audio = TRUE])
  /\ [][builder.consume_audio => builder'.consume_audio]_vars

\* the audio consumer was added to a builder that has other entries
C15_Witness ==
  /\ builder.consume_audio
  /\ builder.consumed_camera_tracks # {}
  /\ builder.audio_producing_tracks # <<>>
  /\ AddAudioConsumerResult = "Exception"

----------------------------------------------------------------------------
(* C16 *)

\* C16: in every state, add_video_consumer with a camera type outside
\* {driver, wideRoad, road} raises AssertionError, add_video_producer with
\* a track that is not video and add_audio_producer with a track that is
\* not audio raise AssertionError, and each leaves the builder's fields as
\* they are.
C16_RejectedCallChangesNothing ==
  /\ \A c \in ConsumerInputs :
       c \notin {"driver", "wideRoad", "road"}
         => /\ AddVideoConsumerResult(c) = "AssertionError"
            /\ AfterAddVideoConsumer(c) = builder
  /\ \A t \in ProducerInputs :
       /\ t.kind # "video" => /\ AddVideoProducerResult(t) = "AssertionError"
                              /\ AfterAddVideoProducer(t) = builder
       /\ t.kind # "audio" => /\ AddAudioProducerResult(t) = "AssertionError"
                              /\ AfterAddAudioProducer(t) = builder

\* a builder with a consumer and a producer of each kind, on which the
\* three rejected calls are tried
C16_Witness ==
  /\ builder.consumed_camera_tracks # {}
  /\ builder.video_producing_tracks # <<>>
  /\ builder.audio_producing_tracks # <<>>
  /\ AddVideoConsumerResult("bogus") = "AssertionError"
  /\ \E t \in ProducerInputs : AddVideoProducerResult(t) = "AssertionError"
  /\ \E t \in ProducerInputs : AddAudioProducerResult(t) = "AssertionError"

----------------------------------------------------------------------------
(* C17 *)

\* C17: the relay tracks that successful get_incoming_video_track calls
\* have returned for one camera type are one per call, and all of them are
\* subscriptions of the same track.
C17_SubscriptionsOfOneTrack ==
  \A c \in CameraTypes :
    \A j, k \in DOMAIN subscriptions :
      (HasLabel(subscriptions[j].source, c) /\ HasLabel(subscriptions[k].source, c))
        => subscriptions[j].source = subscriptions[k].source

----------------------------------------------------------------------------
(* C18 *)

\* C18: when the first start() of a stream returns, the tracks attached to
\* the connection are the stream's outgoing video tracks in list order
\* followed by its outgoing audio tracks in list order, each once; and at
\* no time does the log hold two addTrack calls for one track.
C18_EveryTrackAttachedOnce ==
  /\ [][(~Returned(1) /\ Returned(1)')
          => Attached(calls') =
               [k \in 1..Len(outgoing_video_tracks') |-> AddTrack(outgoing_video_tracks'[k])]
                 \o [k \in 1..Len(outgoing_audio_tracks') |->
                       AddTrack(outgoing_audio_tracks'[k])]]_vars
  /\ [](\A j, k \in DOMAIN Attached(calls) :
          j # k => Attached(calls)[j].track # Attached(calls)[k].track)

----------------------------------------------------------------------------
(* C19 *)

\* C19: no step takes a camera type out of the registry or a track out of
\* the audio list; a step in which a getter returns a relay track leaves
\* both unchanged; and a get_incoming_video_track call that succeeds before
\* a step succeeds after it.  (A failing getter, a connection-state change
\* and an incoming data channel change nothing at all.)
C19_RegistryOnlyGrows ==
  [][/\ DOMAIN incoming_camera_tracks \subseteq DOMAIN incoming_camera_tracks'
     /\ Len(incoming_audio_tracks) <= Len(incoming_audio_tracks')
     /\ SubSeq(incoming_audio_tracks', 1, Len(incoming_audio_tracks)) = incoming_audio_tracks
     /\ subscriptions' # subscriptions
          => UNCHANGED <<incoming_camera_tracks, incoming_audio_tracks>>
     /\ \A c \in QueryInputs, b \in BOOLEAN :
          VideoTrackResult(c, b).result = "ok" => VideoTrackResult(c, b)'.result = "ok"]_vars

\* get_incoming_video_track("road") has succeeded twice, a video track has
\* been ignored, and "road" is still in the registry
C19_Witness ==
  /\ Len(subscriptions) = 2
  /\ \A k \in DOMAIN subscriptions : HasLabel(subscriptions[k].source, "road")
  /\ ignored_video # {}
  /\ "road" \in DOMAIN incoming_camera_tracks
  /\ VideoTrackResult("road", FALSE).result = "ok"

====
